---- MODULE Spec2Model ----
(***************************************************************************)
(* KruskalController (src/KruskalController.py): a Ryu application that    *)
(* rebuilds a weighted topology on every switch-enter event, and on the    *)
(* first flood-fallback packet-in of a topology generation runs Kruskal's  *)
(* algorithm over it and sends a port-down request for both ports of every *)
(* link outside the tree.                                                  *)
(*                                                                         *)
(* Events are handled one at a time, each to completion, so every handler  *)
(* is one action.  The collaborators (discovery, weight source, switches)  *)
(* appear only through what they hand to a handler: the switch and link    *)
(* lists and the sampled weights of a rebuild, the frame of a packet-in,   *)
(* and the port descriptors discovery holds when a port-down is sent.      *)
(*                                                                         *)
(* The rendering calls (Topo.draw_tree, nx.draw, plt.show) read the graph  *)
(* and write no field of the controller; they are left out, taken to       *)
(* return normally.                                                        *)
(***************************************************************************)
EXTENDS Integers, Sequences, FiniteSets, TLC

(***************************************************************************)
(* Bounds of the model.                                                    *)
(***************************************************************************)
MaxDpid == 2        \* datapath ids are 0..MaxDpid
MaxPort == 2        \* ingress ports of frames are 1..MaxPort
MaxWeight == 2      \* sampled weights are 1..MaxWeight (randint draws 1..10)
MaxLinks == 3       \* length of a discovered link list
MaxMac == 1         \* source MAC addresses are 1..MaxMac
MaxMissing == 1     \* descriptors discovery may lack when a port-down is sent
MaxCount == 3       \* the n of the UnionFindSet driven directly
MaxCalls == 4       \* find and union calls on it
MaxConfig == 127    \* port config words are 0..MaxConfig (seven flag bits)
MaxRuns == 2        \* Kruskal() calls recorded per topology generation

Dpid == 0..MaxDpid
Port == 1..MaxPort
Mac == 1..MaxMac
DstMac == 1..(MaxMac + 1)   \* and one address no frame comes from (broadcast)
Weight == 1..MaxWeight

(***************************************************************************)
(* OpenFlow 1.3 and Ethernet constants the handlers use.  The reserved     *)
(* port and buffer numbers are 32-bit values, written here as the signed   *)
(* 32-bit integer with the same bits (0xfffffffb = -5).                    *)
(***************************************************************************)
OFPP_FLOOD == -5
OFPP_CONTROLLER == -3
OFP_NO_BUFFER == -1
OFPCML_NO_BUFFER == 65535
OFPPC_PORT_DOWN == 1
OFPPC_NO_RECV == 4
OFPPC_NO_FWD == 32
OFPPC_NO_PACKET_IN == 64
ETH_TYPE_IP == 2048
ETH_TYPE_LLDP == 35020
ETH_TYPE_IPV6 == 34525
EtherTypes == {ETH_TYPE_IP, ETH_TYPE_LLDP, ETH_TYPE_IPV6}

None == -1          \* Python's None where a datapath is looked up

Range(s) == {s[i] : i \in DOMAIN s}

(***************************************************************************)
(* class UnionFindSet.  fa is the list [0, 1, ..., n]; an index outside it *)
(* raises IndexError, reported in the err field of a result.  As in any    *)
(* Python list a negative index -k counts from the end: it names slot      *)
(* len - k when k <= len.                                                  *)
(***************************************************************************)
Indexable(fa, x) ==
    LET len == Cardinality(DOMAIN fa) IN x < len /\ x >= -len

Slot(fa, x) == IF x < 0 THEN x + Cardinality(DOMAIN fa) ELSE x

UnionFindSet(n) == [fa |-> [i \in 0..n |-> i], size |-> n]

NoneSet == [fa |-> <<>>, size |-> -1]      \* Topo.set before initialize_ufset

\* A find that takes every in-range id for its own root.
find_no_parent(fa, x) ==
    IF Indexable(fa, x) THEN [fa |-> fa, root |-> x, err |-> FALSE]
    ELSE [fa |-> fa, root |-> None, err |-> TRUE]

\* A find that returns the parent and compresses nothing.
find_parent_only(fa, x) ==
    IF Indexable(fa, x) THEN [fa |-> fa, root |-> fa[Slot(fa, x)], err |-> FALSE]
    ELSE [fa |-> fa, root |-> None, err |-> TRUE]

RECURSIVE find(_, _)
find(fa, x) ==
    IF ~Indexable(fa, x)
    THEN [fa |-> fa, root |-> None, err |-> TRUE]
    ELSE IF fa[Slot(fa, x)] /= x
         THEN LET r == find(fa, fa[Slot(fa, x)])
              IN  IF r.err THEN r
                  ELSE [fa |-> [r.fa EXCEPT ![Slot(fa, x)] = r.root],
                        root |-> r.root, err |-> FALSE]
         ELSE [fa |-> fa, root |-> fa[Slot(fa, x)], err |-> FALSE]

\* A union that finds both roots and links nothing.
union_links_nothing(fa, x, y) ==
    LET fx == find(fa, x)
    IN  IF fx.err THEN [fa |-> fx.fa, err |-> TRUE]
        ELSE LET fy == find(fx.fa, y) IN [fa |-> fy.fa, err |-> fy.err]

\* A union that hangs y itself, not its root, under x.
union_without_find(fa, x, y) ==
    IF Indexable(fa, x) /\ Indexable(fa, y)
    THEN [fa |-> IF x /= y THEN [fa EXCEPT ![Slot(fa, y)] = x] ELSE fa, err |-> FALSE]
    ELSE [fa |-> fa, err |-> TRUE]

union(fa, x, y) ==
    LET fx == find(fa, x)
    IN  IF fx.err THEN [fa |-> fx.fa, err |-> TRUE]
        ELSE LET fy == find(fx.fa, y)
             IN  IF fy.err THEN [fa |-> fy.fa, err |-> TRUE]
                 ELSE IF fx.root /= fy.root
                      THEN [fa |-> [fy.fa EXCEPT ![fy.root] = fx.root], err |-> FALSE]
                      ELSE [fa |-> fy.fa, err |-> FALSE]

(***************************************************************************)
(* class Topo(nx.DiGraph).  nodes is the node list in insertion order and  *)
(* adj[u] the out-edges of u in insertion order, as networkx keeps them.   *)
(***************************************************************************)
NewTopo == [nodes |-> <<>>, adj |-> <<>>, set |-> NoneSet, MST_exist |-> FALSE]

add_node(g, n) ==
    IF n \in Range(g.nodes) THEN g
    ELSE [g EXCEPT !.nodes = Append(g.nodes, n), !.adj = g.adj @@ (n :> <<>>)]

RECURSIVE add_nodes_from(_, _)
add_nodes_from(g, ns) ==
    IF ns = <<>> THEN g ELSE add_nodes_from(add_node(g, Head(ns)), Tail(ns))

has_edge(g, u, v) ==
    /\ u \in Range(g.nodes)
    /\ \E i \in DOMAIN g.adj[u] : g.adj[u][i].v = v

edge_data(g, u, v) ==
    g.adj[u][CHOOSE i \in DOMAIN g.adj[u] : g.adj[u][i].v = v]

\* An add_edge that leaves an edge it finds as it is.
add_edge_keeps_old(g, u, v, src_port, dst_port, weight) ==
    LET g1 == add_node(add_node(g, u), v)
        row == g1.adj[u]
        rec == [u |-> u, v |-> v, src_port |-> src_port, dst_port |-> dst_port,
                weight |-> weight]
    IN  IF \E i \in DOMAIN row : row[i].v = v THEN g1
        ELSE [g1 EXCEPT !.adj[u] = Append(row, rec)]

add_edge(g, u, v, src_port, dst_port, weight) ==
    LET g1 == add_node(add_node(g, u), v)
        row == g1.adj[u]
        rec == [u |-> u, v |-> v, src_port |-> src_port, dst_port |-> dst_port,
                weight |-> weight]
    IN  IF \E i \in DOMAIN row : row[i].v = v
        THEN [g1 EXCEPT !.adj[u] =
                 [i \in DOMAIN row |-> IF row[i].v = v THEN rec ELSE row[i]]]
        ELSE [g1 EXCEPT !.adj[u] = Append(row, rec)]

\* self.edges(data=True): node by node, each node's out-edges in order.
RECURSIVE EdgesFrom(_, _)
EdgesFrom(g, i) ==
    IF i > Len(g.nodes) THEN <<>> ELSE g.adj[g.nodes[i]] \o EdgesFrom(g, i + 1)

edges(g) == EdgesFrom(g, 1)

\* sorted(..., key=weight): stable, ascending.
RECURSIVE InsertByWeight(_, _)
InsertByWeight(s, e) ==
    IF s = <<>> THEN <<e>>
    ELSE IF s[Len(s)].weight <= e.weight THEN Append(s, e)
         ELSE Append(InsertByWeight(SubSeq(s, 1, Len(s) - 1), e), s[Len(s)])

RECURSIVE SortFrom(_, _, _)
SortFrom(es, i, acc) ==
    IF i > Len(es) THEN acc ELSE SortFrom(es, i + 1, InsertByWeight(acc, es[i]))

\* Kruskal over the edges as the graph yields them.
sorted_not(es) == es

sorted(es) == SortFrom(es, 1, <<>>)

\* The loop of Topo.Kruskal over the sorted edges from position i on.
RECURSIVE KruskalLoop(_, _, _, _)
KruskalLoop(es, i, fa, tree) ==
    IF i > Len(es) THEN [fa |-> fa, tree_edges |-> tree, err |-> FALSE]
    ELSE LET e == es[i]
             f0 == find(fa, e.u)
         IN  IF f0.err THEN [fa |-> f0.fa, tree_edges |-> tree, err |-> TRUE]
             ELSE LET f1 == find(f0.fa, e.v)
                  IN  IF f1.err THEN [fa |-> f1.fa, tree_edges |-> tree, err |-> TRUE]
                      ELSE IF f0.root /= f1.root
                           THEN KruskalLoop(es, i + 1, union(f1.fa, e.u, e.v).fa,
                                            Append(tree, <<e.u, e.v>>))
                           ELSE KruskalLoop(es, i + 1, f1.fa, tree)

Kruskal(g) == KruskalLoop(sorted(edges(g)), 1, g.set.fa, <<>>)

(***************************************************************************)
(* class KruskalController.                                                *)
(*                                                                         *)
(* A view is what discovery holds when send_port_mod asks it for a port's  *)
(* hardware address: gone are the switches get_switch no longer returns,   *)
(* nodesc the (switch, port) pairs it has no port entry for.               *)
(***************************************************************************)
find_datapath_by_id(dps, dpid) == IF dpid \in Range(dps) THEN dpid ELSE None

mask_all == OFPPC_PORT_DOWN + OFPPC_NO_RECV + OFPPC_NO_FWD + OFPPC_NO_PACKET_IN

\* A send_port_mod that asks for the port to be brought up.
send_port_up(view, datapath, port_no, opt) ==
    IF datapath \in view.gone THEN [msgs |-> <<>>, err |-> TRUE]
    ELSE IF <<datapath, port_no>> \in view.nodesc THEN [msgs |-> <<>>, err |-> FALSE]
    ELSE [msgs |-> << [type |-> "OFPPortMod", datapath |-> datapath,
                       port_no |-> port_no, config |-> 0, mask |-> mask_all] >>,
          err |-> FALSE]

\* The messages send_port_mod sends, or the IndexError of get_switch(...)[0].
send_port_mod(view, datapath, port_no, opt) ==
    IF datapath \in view.gone THEN [msgs |-> <<>>, err |-> TRUE]
    ELSE IF <<datapath, port_no>> \in view.nodesc THEN [msgs |-> <<>>, err |-> FALSE]
    ELSE [msgs |-> << [type |-> "OFPPortMod", datapath |-> datapath,
                       port_no |-> port_no, config |-> opt, mask |-> mask_all] >>,
          err |-> FALSE]

\* The tree test of block_links without the reversed pair.
SkipLinkOneWay(e, excepts) == <<e.u, e.v>> \in Range(excepts)

SkipLink(e, excepts) == <<e.u, e.v>> \in Range(excepts) \/ <<e.v, e.u>> \in Range(excepts)

RECURSIVE BlockLoop(_, _, _, _, _, _)
BlockLoop(es, i, dps, excepts, view, msgs) ==
    IF i > Len(es) THEN [msgs |-> msgs, err |-> FALSE]
    ELSE LET e == es[i]
             src_dp == find_datapath_by_id(dps, e.u)
             dst_dp == find_datapath_by_id(dps, e.v)
         IN  IF SkipLink(e, excepts) THEN BlockLoop(es, i + 1, dps, excepts, view, msgs)
             ELSE IF src_dp /= None /\ dst_dp /= None
             THEN LET a == send_port_mod(view, src_dp, e.src_port, OFPPC_PORT_DOWN)
                  IN  IF a.err THEN [msgs |-> msgs, err |-> TRUE]
                      ELSE LET b == send_port_mod(view, dst_dp, e.dst_port, OFPPC_PORT_DOWN)
                           IN  IF b.err THEN [msgs |-> msgs \o a.msgs, err |-> TRUE]
                               ELSE BlockLoop(es, i + 1, dps, excepts, view,
                                              msgs \o a.msgs \o b.msgs)
             ELSE BlockLoop(es, i + 1, dps, excepts, view, msgs)

block_links(g, dps, excepts, view) == BlockLoop(edges(g), 1, dps, excepts, view, <<>>)

add_flow(datapath, priority, match, actions, buffer_id) ==
    [type |-> "OFPFlowMod", datapath |-> datapath, buffer_id |-> buffer_id,
     priority |-> priority, match |-> match, out_port |-> actions]

\* A rebuild that samples a weight for every link.
ResolveWeightSampled(g, u, v, sample) == sample

\* The weight of a new edge u -> v: the reverse edge's, or else the sample.
ResolveWeight(g, u, v, sample) ==
    IF has_edge(g, v, u) THEN edge_data(g, v, u).weight ELSE sample

\* The loop of switch_enter_handler over all_links; w[i] is what randint
\* returns if link i has to sample.
RECURSIVE AddLinks(_, _, _, _)
AddLinks(g, links, w, i) ==
    IF i > Len(links) THEN g
    ELSE LET u == links[i].src
             v == links[i].dst
             weight == ResolveWeight(g, u, v, w[i])
         IN  AddLinks(add_edge(g, u, v, links[i].src_port, links[i].dst_port, weight),
                      links, w, i + 1)

Rebuild(all_switches, all_links, w) ==
    LET g0 == add_nodes_from(NewTopo, all_switches)
        g1 == [g0 EXCEPT !.set = UnionFindSet(Len(all_switches))]
    IN  AddLinks(g1, all_links, w, 1)

(***************************************************************************)
(* State.                                                                  *)
(*   topo, datapaths, mac_to_port   the controller's fields                *)
(*   sent      the messages the latest handler passed to send_msg          *)
(*   runs      one record per Kruskal() call on the current topo object:   *)
(*             its tree, the port-down requests block_links sent, the view *)
(*             it was sent under, and where it raised, if it did           *)
(*   ev        the latest event                                            *)
(*   net       the switch list, link list and weights of a rebuild         *)
(*   rearmed   the latest rebuild replaced an enforced topology and got    *)
(*             the same lists as the one before                            *)
(***************************************************************************)
VARIABLES topo, datapaths, mac_to_port, sent, runs, ev, net, rearmed,
          ufset, linked, call, port_config, blocked

\* ufset is a UnionFindSet driven directly, linked the pairs its union was
\* called with, call the latest call on it.
ufvars == <<ufset, linked, call>>

\* port_config is the config word each switch port holds, blocked the
\* (switch, port) pairs a port-down request was ever sent for; both are
\* followed where the requests are applied (SpecPorts).
portvars == <<port_config, blocked>>

vars == <<topo, datapaths, mac_to_port, sent, runs, ev, net, rearmed, ufset, linked, call,
          port_config, blocked>>

\* A call on ufset: its arguments, the list before it, what it returned or
\* raised, how many calls there were, and whether all of them named slots
\* 0..n by their own index.
Call(op, x, y, before, root, err, n, plain) ==
    [op |-> op, x |-> x, y |-> y, before |-> before, root |-> root, err |-> err,
     n |-> n, plain |-> plain]

NoCall == Call("none", 0, 0, <<>>, None, FALSE, 0, TRUE)

NoNet == [switches |-> <<>>, links |-> <<>>, weights |-> <<>>]

\* Where a frame came in: the switch, the ingress port, the source address.
Frame(dpid, in_port, src_mac) == [dpid |-> dpid, in_port |-> in_port, src |-> src_mac]

NoFrame == Frame(0, 0, 0)

\* The latest event: its kind, and for a packet-in the frame's ethertype,
\* the forwarding decision, and whether the handler raised.
Event(type, ethertype, out_port, raised) ==
    [type |-> type, ethertype |-> ethertype, out_port |-> out_port, raised |-> raised,
     frame |-> NoFrame]

\* The packet-in event of a frame.
PacketInEvent(dpid, in_port, src_mac, ethertype, out_port, raised) ==
    [Event("packet_in", ethertype, out_port, raised)
        EXCEPT !.frame = Frame(dpid, in_port, src_mac)]

\* One Kruskal() call and the block_links that followed it.
Run(k, b, view) ==
    [tree_edges |-> k.tree_edges, mods |-> b.msgs, view |-> view,
     err |-> IF k.err THEN "Kruskal" ELSE IF b.err THEN "block_links" ELSE "none"]

NoMsgs == [msgs |-> <<>>, err |-> FALSE]

FullView == [gone |-> {}, nodesc |-> {}]

\* The views that differ for the topology g: up to MaxMissing of its
\* switches or link ports are unknown to discovery.
RECURSIVE SubsetsUpTo(_, _)
SubsetsUpTo(S, k) ==
    IF k = 0 THEN {{}}
    ELSE LET smaller == SubsetsUpTo(S, k - 1)
         IN  smaller \cup {T \cup {x} : T \in smaller, x \in S}

Views(g) ==
    LET es == Range(edges(g))
        items == {<<"sw", d, 0>> : d \in {e.u : e \in es} \cup {e.v : e \in es}}
                 \cup {<<"port", e.u, e.src_port>> : e \in es}
                 \cup {<<"port", e.v, e.dst_port>> : e \in es}
    IN  {[gone |-> {m[2] : m \in {x \in M : x[1] = "sw"}},
          nodesc |-> {<<m[2], m[3]>> : m \in {x \in M : x[1] = "port"}}] :
            M \in SubsetsUpTo(items, MaxMissing)}

ANY == 0            \* a wildcarded match field

OFPMatch(in_port, eth_dst, eth_src) ==
    [in_port |-> in_port, eth_dst |-> eth_dst, eth_src |-> eth_src]

OFPPacketOut(datapath, buffer_id, in_port, out_port) ==
    [type |-> "OFPPacketOut", datapath |-> datapath, buffer_id |-> buffer_id,
     in_port |-> in_port, out_port |-> out_port]

Init ==
    /\ topo = NewTopo
    /\ datapaths = <<>>
    /\ mac_to_port = <<>>
    /\ sent = <<>>
    /\ runs = <<>>
    /\ ev = Event("init", 0, 0, FALSE)
    /\ net = NoNet
    /\ rearmed = FALSE
    /\ ufset = NoneSet
    /\ linked = {}
    /\ call = NoCall
    /\ port_config = <<>>
    /\ blocked = {}

(***************************************************************************)
(* switch_features_handler: install the table-miss flow.                   *)
(***************************************************************************)
switch_features_handler(dpid) ==
    /\ sent' = << add_flow(dpid, 0, OFPMatch(ANY, ANY, ANY), OFPP_CONTROLLER,
                           OFP_NO_BUFFER) >>
    /\ ev' = Event("switch_features", 0, 0, FALSE)
    /\ UNCHANGED <<topo, datapaths, mac_to_port, runs, net, rearmed>>

(***************************************************************************)
(* packet_in_handler.  The table-miss flow sends whole frames, so the      *)
(* event's buffer_id is OFP_NO_BUFFER.                                     *)
(***************************************************************************)
\* A table that keeps the port an address was first seen on.
LearnOnce(table, dpid, src_mac, in_port) ==
    IF dpid \in DOMAIN table /\ src_mac \in DOMAIN table[dpid] THEN table
    ELSE [d \in DOMAIN table \cup {dpid} |->
            IF d = dpid
            THEN [m \in (IF dpid \in DOMAIN table THEN DOMAIN table[dpid] ELSE {})
                            \cup {src_mac} |->
                    IF m = src_mac THEN in_port ELSE table[dpid][m]]
            ELSE table[d]]

\* A filter that lets IPv6 frames through.
FilteredLLDPOnly(ethertype) == ethertype = ETH_TYPE_LLDP

Learn(table, dpid, src_mac, in_port) ==
    LET old == IF dpid \in DOMAIN table THEN table[dpid] ELSE <<>>
        new == [m \in DOMAIN old \cup {src_mac} |->
                   IF m = src_mac THEN in_port ELSE old[m]]
    IN  [d \in DOMAIN table \cup {dpid} |-> IF d = dpid THEN new ELSE table[d]]

Lookup(table, dpid, dst_mac) ==
    IF dst_mac \in DOMAIN table[dpid] THEN table[dpid][dst_mac] ELSE OFPP_FLOOD

Filtered(ethertype) == ethertype \in {ETH_TYPE_LLDP, ETH_TYPE_IPV6}

\* A handler that marks the generation and goes on after a raise.
MarkedDespiteRaise(b, old) == TRUE

EmittedDespiteRaise(b, flow, out) == b.msgs \o <<flow, out>>

\* MST_exist after Kruskal() and block_links(): line 147 is reached only
\* when neither raised.
Marked(b, old) == IF b.err THEN old ELSE TRUE

\* What the handler has passed to send_msg when it ends: the port-down
\* requests, and the flow and the packet-out unless the computation raised.
Emitted(b, flow, out) == IF b.err THEN b.msgs ELSE b.msgs \o <<flow, out>>

\* A handler that computes at every flood, for comparison.
NeedsTreeEveryFlood(out_port, g) == out_port = OFPP_FLOOD

\* The condition under which the handler calls Kruskal() and block_links().
NeedsTree(out_port, g) == out_port = OFPP_FLOOD /\ ~g.MST_exist

\* The frame makes the handler call Kruskal() and block_links().
Triggers(dpid, in_port, src_mac, dst_mac, ethertype) ==
    /\ ~Filtered(ethertype)
    /\ NeedsTree(Lookup(Learn(mac_to_port, dpid, src_mac, in_port), dpid, dst_mac), topo)

packet_in_handler(dpid, in_port, src_mac, dst_mac, ethertype, view) ==
    IF Filtered(ethertype)
    THEN /\ sent' = <<>>
         /\ ev' = PacketInEvent(dpid, in_port, src_mac, ethertype, 0, FALSE)
         /\ UNCHANGED <<topo, datapaths, mac_to_port, runs, net, rearmed>>
    ELSE LET table == Learn(mac_to_port, dpid, src_mac, in_port)
             out_port == Lookup(table, dpid, dst_mac)
             compute == NeedsTree(out_port, topo)
             k == Kruskal(topo)
             b == IF k.err THEN [msgs |-> <<>>, err |-> TRUE]
                  ELSE block_links(topo, datapaths, k.tree_edges, view)
             flow == add_flow(dpid, 1, OFPMatch(in_port, dst_mac, src_mac), out_port,
                              OFP_NO_BUFFER)
             out == OFPPacketOut(dpid, OFP_NO_BUFFER, in_port, out_port)
         IN  /\ mac_to_port' = table
             /\ UNCHANGED <<datapaths, net, rearmed>>
             /\ IF compute
                THEN /\ Len(runs) < MaxRuns
                     /\ runs' = Append(runs, Run(k, b, view))
                     /\ topo' = [topo EXCEPT !.set.fa = k.fa,
                                            !.MST_exist = Marked(b, @)]
                     /\ sent' = Emitted(b, flow, out)
                     /\ ev' = PacketInEvent(dpid, in_port, src_mac, ethertype, out_port,
                                            b.err)
                ELSE /\ UNCHANGED <<topo, runs>>
                     /\ sent' = <<flow, out>>
                     /\ ev' = PacketInEvent(dpid, in_port, src_mac, ethertype, out_port,
                                            FALSE)

(***************************************************************************)
(* switch_enter_handler.                                                   *)
(***************************************************************************)
\* A rebuild that carries the old generation's MST_exist over, for
\* comparison.
switch_enter_keeps_MST_exist(all_switches, all_links, w) ==
    /\ topo' = [Rebuild(all_switches, all_links, w) EXCEPT !.MST_exist = topo.MST_exist]
    /\ datapaths' = all_switches
    /\ net' = [switches |-> all_switches, links |-> all_links, weights |-> w]
    /\ rearmed' = (topo.MST_exist /\ net.switches = all_switches /\ net.links = all_links)
    /\ runs' = <<>>
    /\ sent' = <<>>
    /\ ev' = Event("switch_enter", 0, 0, FALSE)
    /\ UNCHANGED mac_to_port

switch_enter_handler(all_switches, all_links, w) ==
    /\ topo' = Rebuild(all_switches, all_links, w)
    /\ datapaths' = all_switches
    /\ net' = [switches |-> all_switches, links |-> all_links, weights |-> w]
    /\ rearmed' = (topo.MST_exist /\ net.switches = all_switches /\ net.links = all_links)
    /\ runs' = <<>>
    /\ sent' = <<>>
    /\ ev' = Event("switch_enter", 0, 0, FALSE)
    /\ UNCHANGED mac_to_port

(***************************************************************************)
(* What the collaborators may hand over.                                   *)
(***************************************************************************)
RECURSIVE Ascending(_)
Ascending(S) ==
    IF S = {} THEN <<>>
    ELSE LET m == CHOOSE x \in S : \A y \in S : x <= y
         IN  <<m>> \o Ascending(S \ {m})

\* A link u -> v.  With distinct ports, switch u reaches v through port
\* v + 1, so no port serves two neighbours; with shared ports every link
\* of a switch leaves through port 1.
Link(u, v, shared) ==
    [src |-> u, dst |-> v,
     src_port |-> IF shared THEN 1 ELSE v + 1,
     dst_port |-> IF shared THEN 1 ELSE u + 1]

SeqsUpTo(S, n) == UNION {[1..k -> S] : k \in 0..n}

\* The ring 0 -> 1 -> 2 -> 0 and then its reverse links.
Ring == << Link(0, 1, FALSE), Link(1, 2, FALSE), Link(2, 0, FALSE),
           Link(1, 0, FALSE), Link(2, 1, FALSE), Link(0, 2, FALSE) >>

\* A link, its reverse, and the link again through other ports.
Twice == << Link(1, 2, FALSE), Link(2, 1, FALSE), Link(1, 2, TRUE) >>

\* Rebuild inputs of the event model: discovery reports the switches from
\* some id on and the first k links of the ring or of the repeated link.
Discoveries ==
    {[switches |-> Ascending(a..MaxDpid), links |-> SubSeq(ls, 1, k), weights |-> w] :
        a \in 0..(MaxDpid + 1), ls \in {Ring, Twice}, k \in 0..MaxLinks,
        w \in SeqsUpTo(Weight, MaxLinks)}

\* The switch whose features replies and frames are followed.
Talkers == {1}

SwitchFeatures ==
    /\ \E dpid \in Talkers : switch_features_handler(dpid)
    /\ UNCHANGED <<ufvars, portvars>>

PacketIn ==
    /\ \E dpid \in Talkers, in_port \in Port, src_mac \in Mac, dst_mac \in DstMac,
          ethertype \in EtherTypes :
           \E view \in IF Triggers(dpid, in_port, src_mac, dst_mac, ethertype)
                       THEN {v \in Views(topo) : v.nodesc = {}} ELSE {FullView} :
               packet_in_handler(dpid, in_port, src_mac, dst_mac, ethertype, view)
    /\ UNCHANGED <<ufvars, portvars>>

SwitchEnter ==
    /\ \E d \in {x \in Discoveries : Len(x.weights) = Len(x.links)} :
           switch_enter_handler(d.switches, d.links, d.weights)
    /\ UNCHANGED <<ufvars, portvars>>

Next == SwitchFeatures \/ PacketIn \/ SwitchEnter

Spec == Init /\ [][Next]_vars

(***************************************************************************)
(* One topology.  The inputs of the one rebuild are drawn at the start; a  *)
(* frame with an unknown destination triggers the computation, and         *)
(* ForcedComputation calls Kruskal() and block_links() once more on the    *)
(* same topology object.                                                   *)
(***************************************************************************)
Pairs == {p \in Dpid \X Dpid : p[1] /= p[2]}

\* Scenario A of the specification: four switches fully meshed.
ScenarioA ==
    [switches |-> <<1, 2, 3, 4>>,
     links |-> << Link(1, 2, FALSE), Link(1, 3, FALSE), Link(1, 4, FALSE),
                  Link(2, 3, FALSE), Link(2, 4, FALSE), Link(3, 4, FALSE) >>,
     weights |-> <<3, 1, 4, 2, 5, 6>>]

Topologies ==
    {[switches |-> Ascending(a..MaxDpid),
      links |-> [i \in DOMAIN ps |-> Link(ps[i][1], ps[i][2], shared)],
      weights |-> w] :
        a \in 0..(MaxDpid + 1), ps \in SeqsUpTo(Pairs, MaxLinks), shared \in BOOLEAN,
        w \in SeqsUpTo(Weight, MaxLinks)}

\* Three switches with a link in each direction between every two, so that
\* a blocked link and a tree link both have a reverse link.
Meshes == {[switches |-> <<0, 1, 2>>, links |-> Ring, weights |-> w] :
            w \in [1..Len(Ring) -> Weight]}

InitOne ==
    /\ topo = NewTopo
    /\ datapaths = <<>>
    /\ mac_to_port = <<>>
    /\ sent = <<>>
    /\ runs = <<>>
    /\ ev = Event("init", 0, 0, FALSE)
    /\ net \in {x \in Topologies : Len(x.weights) = Len(x.links)}
                \cup Meshes \cup {ScenarioA}
    /\ rearmed = FALSE
    /\ ufset = NoneSet
    /\ linked = {}
    /\ call = NoCall
    /\ port_config = <<>>
    /\ blocked = {}

SwitchEnterOne ==
    /\ topo.set = NoneSet
    /\ switch_enter_handler(net.switches, net.links, net.weights)
    /\ UNCHANGED <<ufvars, portvars>>

\* The frames that trigger a computation on the rebuilt topology.  Discovery
\* does not change while the topology object lives: a later call sees the
\* view of the first.
FloodOne ==
    /\ topo.set /= NoneSet
    /\ Triggers(1, 1, 1, MaxMac + 1, ETH_TYPE_IP)
    /\ \E view \in IF runs = <<>> THEN Views(topo) ELSE {runs[1].view} :
           packet_in_handler(1, 1, 1, MaxMac + 1, ETH_TYPE_IP, view)
    /\ UNCHANGED <<ufvars, portvars>>

ForcedComputation ==
    /\ Len(runs) >= 1
    /\ Len(runs) < MaxRuns
    /\ LET view == runs[Len(runs)].view
           k == Kruskal(topo)
           b == IF k.err THEN [msgs |-> <<>>, err |-> TRUE]
                ELSE block_links(topo, datapaths, k.tree_edges, view)
       IN  /\ runs' = Append(runs, Run(k, b, view))
           /\ topo' = [topo EXCEPT !.set.fa = k.fa]
           /\ sent' = b.msgs
           /\ ev' = Event("forced", 0, 0, b.err)
    /\ UNCHANGED <<datapaths, mac_to_port, net, rearmed>>
    /\ UNCHANGED <<ufvars, portvars>>

NextOne == SwitchEnterOne \/ FloodOne \/ ForcedComputation

SpecOne == InitOne /\ [][NextOne]_vars

(***************************************************************************)
(* The disjoint-set alone.  A UnionFindSet of MaxCount slots beside the    *)
(* sentinel receives up to MaxCalls calls of find and union, with ids      *)
(* inside and outside the list.                                            *)
(***************************************************************************)
Ids == (-1)..(MaxCount + 1)

InitUF ==
    /\ topo = NewTopo
    /\ datapaths = <<>>
    /\ mac_to_port = <<>>
    /\ sent = <<>>
    /\ runs = <<>>
    /\ ev = Event("init", 0, 0, FALSE)
    /\ net = NoNet
    /\ rearmed = FALSE
    /\ ufset = UnionFindSet(MaxCount)
    /\ linked = {}
    /\ call = NoCall
    /\ port_config = <<>>
    /\ blocked = {}

ctlvars == <<topo, datapaths, mac_to_port, sent, runs, ev, net, rearmed>>

FindCall ==
    /\ call.n < MaxCalls
    /\ \E x \in Ids :
          LET r == find(ufset.fa, x)
          IN  /\ ufset' = [ufset EXCEPT !.fa = r.fa]
              /\ call' = Call("find", x, x, ufset.fa, r.root, r.err, call.n + 1,
                              call.plain /\ x \in DOMAIN ufset.fa)
    /\ UNCHANGED <<linked, ctlvars, portvars>>

UnionCall ==
    /\ call.n < MaxCalls
    /\ \E x, y \in Ids :
          LET r == union(ufset.fa, x, y)
          IN  /\ ufset' = [ufset EXCEPT !.fa = r.fa]
              /\ linked' = IF r.err THEN linked ELSE linked \cup {[u |-> x, v |-> y]}
              /\ call' = Call("union", x, y, ufset.fa, None, r.err, call.n + 1,
                              call.plain /\ {x, y} \subseteq DOMAIN ufset.fa)
    /\ UNCHANGED <<ctlvars, portvars>>

NextUF == FindCall \/ UnionCall

SpecUF == InitUF /\ [][NextUF]_vars

(***************************************************************************)
(* The port-down requests applied.  Three switches in a ring are rebuilt   *)
(* with fresh weights again and again; every port starts with one config   *)
(* word out of 0..MaxConfig, and a switch applies an OFPPortMod as         *)
(* (old AND NOT mask) OR (config AND mask).                                *)
(***************************************************************************)
ConfigBits == {1, 2, 4, 8, 16, 32, 64}

Bit(word, b) == (word \div b) % 2

RECURSIVE SumOf(_, _)
SumOf(f, S) ==
    IF S = {} THEN 0
    ELSE LET b == CHOOSE x \in S : TRUE IN f[b] + SumOf(f, S \ {b})

ApplyPortMod(old, config, mask) ==
    SumOf([b \in ConfigBits |->
              b * (IF Bit(mask, b) = 1 THEN Bit(config, b) ELSE Bit(old, b))],
          ConfigBits)

RECURSIVE ApplyAll(_, _, _)
ApplyAll(cfg, msgs, i) ==
    IF i > Len(msgs) THEN cfg
    ELSE LET m == msgs[i]
             dp == <<m.datapath, m.port_no>>
         IN  IF m.type = "OFPPortMod" /\ dp \in DOMAIN cfg
             THEN ApplyAll([cfg EXCEPT ![dp] = ApplyPortMod(@, m.config, m.mask)],
                           msgs, i + 1)
             ELSE ApplyAll(cfg, msgs, i + 1)

PortDowns(msgs) ==
    {<<msgs[i].datapath, msgs[i].port_no>> :
        i \in {j \in DOMAIN msgs : msgs[j].type = "OFPPortMod"}}

RingPorts == {<<Ring[i].src, Ring[i].src_port>> : i \in 1..MaxLinks}
                \cup {<<Ring[i].dst, Ring[i].dst_port>> : i \in 1..MaxLinks}

InitPorts ==
    /\ topo = NewTopo
    /\ datapaths = <<>>
    /\ mac_to_port = <<>>
    /\ sent = <<>>
    /\ runs = <<>>
    /\ ev = Event("init", 0, 0, FALSE)
    /\ net = NoNet
    /\ rearmed = FALSE
    /\ ufset = NoneSet
    /\ linked = {}
    /\ call = NoCall
    /\ \E old \in 0..MaxConfig : port_config = [dp \in RingPorts |-> old]
    /\ blocked = {}

SwitchEnterPorts ==
    /\ \E w \in [1..MaxLinks -> Weight] :
          switch_enter_handler(Ascending(0..MaxDpid), SubSeq(Ring, 1, MaxLinks), w)
    /\ UNCHANGED <<ufvars, portvars>>

PacketInPorts ==
    /\ \E dst_mac \in DstMac :
          packet_in_handler(1, 1, 1, dst_mac, ETH_TYPE_IP, FullView)
    /\ port_config' = ApplyAll(port_config, sent', 1)
    /\ blocked' = blocked \cup PortDowns(sent')
    /\ UNCHANGED ufvars

NextPorts == SwitchEnterPorts \/ PacketInPorts

SpecPorts == InitPorts /\ [][NextPorts]_vars

(***************************************************************************)
(* Graph notions the properties use.  A set of edge records is read as an  *)
(* undirected graph on the topology's nodes.                               *)
(***************************************************************************)
Nodes == Range(topo.nodes)

TopoEdges == Range(edges(topo))

\* The partition P of the nodes after joining the blocks of each edge's ends.
RECURSIVE Joined(_, _)
Joined(P, E) ==
    IF E = {} THEN P
    ELSE LET e == CHOOSE x \in E : TRUE
             bu == CHOOSE B \in P : e.u \in B
             bv == CHOOSE B \in P : e.v \in B
         IN  Joined((P \ {bu, bv}) \cup {bu \cup bv}, E \ {e})

Components(V, E) == Joined({{a} : a \in V}, E)

PairsOf(E) == {{e.u, e.v} : e \in E}

IsForest(V, E) ==
    /\ \A e \in E : e.u /= e.v
    /\ Cardinality(PairsOf(E)) = Cardinality(V) - Cardinality(Components(V, E))

SpanningForest(F) ==
    /\ IsForest(Nodes, F)
    /\ Components(Nodes, F) = Components(Nodes, TopoEdges)

RECURSIVE SumWeights(_)
SumWeights(E) ==
    IF E = {} THEN 0
    ELSE LET e == CHOOSE x \in E : TRUE IN e.weight + SumWeights(E \ {e})

\* The ports a run's block_links sent a port-down request for.
Downs(r) == {<<m.datapath, m.port_no>> : m \in Range(r.mods)}

\* Switch d has a control session and discovery has a descriptor of its port p.
Available(r, d, p) ==
    /\ d \in Range(datapaths)
    /\ d \notin r.view.gone
    /\ <<d, p>> \notin r.view.nodesc

AllAvailable(r) ==
    /\ \A n \in Nodes : n \in Range(datapaths) /\ n \notin r.view.gone
    /\ \A e \in TopoEdges : Available(r, e.u, e.src_port) /\ Available(r, e.v, e.dst_port)

\* The links none of whose two ports got a port-down request.
Unblocked(r) ==
    {e \in TopoEdges : <<e.u, e.src_port>> \notin Downs(r)
                       /\ <<e.v, e.dst_port>> \notin Downs(r)}

\* Each (switch, port) belongs to the links of at most one pair of switches.
PortsUnshared ==
    \A e, f \in TopoEdges :
        {<<e.u, e.src_port>>, <<e.v, e.dst_port>>}
            \cap {<<f.u, f.src_port>>, <<f.v, f.dst_port>>} /= {}
        => {e.u, e.v} = {f.u, f.v}

\* The first flood-fallback packet-in of the generation has been handled
\* and left the generation enforced.
Enforced == topo.MST_exist /\ Len(runs) = 1

\* The first Kruskal() of the generation returned.
FirstTree == runs /= <<>> /\ runs[1].err /= "Kruskal"

TreeRecords(tree) == {edge_data(topo, tree[i][1], tree[i][2]) : i \in DOMAIN tree}

(***************************************************************************)
(* C1 as stated: once the generation is enforced and every switch has a    *)
(* control session and port descriptors, the links that got no port-down   *)
(* request form a spanning forest of the discovered topology.              *)
(***************************************************************************)
C1_LoopFreeAsStated ==
    Enforced /\ AllAvailable(runs[1]) => SpanningForest(Unblocked(runs[1]))

\* C1 amended: the same, given that no (switch, port) belongs to the links
\* of two different pairs of switches.
C1_LoopFree ==
    Enforced /\ AllAvailable(runs[1]) /\ PortsUnshared
        => SpanningForest(Unblocked(runs[1]))

\* A triangle was enforced: one of its links is blocked, two are left.
C1_Witness ==
    /\ Enforced /\ AllAvailable(runs[1]) /\ PortsUnshared
    /\ Cardinality(PairsOf(TopoEdges)) = 3
    /\ ~IsForest(Nodes, TopoEdges)
    /\ runs[1].mods /= <<>>
    /\ Cardinality(PairsOf(Unblocked(runs[1]))) = 2

\* The weight of the lightest spanning forest, by enumeration.
MinForestWeight ==
    LET whole == Components(Nodes, TopoEdges)
        size == Cardinality(Nodes) - Cardinality(whole)
        forests == {F \in SUBSET TopoEdges :
                        /\ Cardinality(F) = size
                        /\ Cardinality(PairsOf(F)) = size
                        /\ Components(Nodes, F) = whole}
        weights == {SumWeights(F) : F \in forests}
    IN  CHOOSE m \in weights : \A n \in weights : m <= n

(***************************************************************************)
(* C2 as stated: the tree of the first Kruskal() of a generation weighs    *)
(* what the lightest spanning forest found by enumerating all edge subsets *)
(* weighs; for Scenario A that is 6.                                       *)
(***************************************************************************)
C2_KruskalMinimalAsStated ==
    FirstTree =>
        /\ SumWeights(TreeRecords(runs[1].tree_edges)) = MinForestWeight
        /\ (net = ScenarioA /\ topo.set /= NoneSet
                => SumWeights(TreeRecords(runs[1].tree_edges)) = 6)

\* C2 amended: the same, and for Scenario A that weight is 7: the three
\* lightest links (1,3), (2,3), (1,2) close a cycle and leave switch 4 out.
C2_KruskalMinimal ==
    FirstTree =>
        /\ Cardinality(TreeRecords(runs[1].tree_edges)) = Len(runs[1].tree_edges)
        /\ SumWeights(TreeRecords(runs[1].tree_edges)) = MinForestWeight
        /\ (net = ScenarioA /\ topo.set /= NoneSet
                => SumWeights(TreeRecords(runs[1].tree_edges)) = 7)

C2_Witness ==
    /\ FirstTree /\ net = ScenarioA /\ topo.set /= NoneSet
    /\ SumWeights(TreeRecords(runs[1].tree_edges)) = 7
    /\ Len(runs[1].tree_edges) = 3

(***************************************************************************)
(* C3: the tree of the first Kruskal() of a generation has as many entries *)
(* as the topology has nodes minus connected components, and never holds a *)
(* pair in both directions.                                                *)
(***************************************************************************)
C3_TreeSize ==
    FirstTree =>
        LET tree == runs[1].tree_edges
        IN  /\ Len(tree) = Cardinality(Nodes) - Cardinality(Components(Nodes, TopoEdges))
            /\ \A i, j \in DOMAIN tree : tree[i] /= <<tree[j][2], tree[j][1]>>

\* A disconnected topology with links in both directions got its tree.
C3_Witness ==
    /\ FirstTree
    /\ Cardinality(Components(Nodes, TopoEdges)) = 2
    /\ Len(runs[1].tree_edges) = Cardinality(Nodes) - 2
    /\ \E e, f \in TopoEdges : e.u = f.v /\ e.v = f.u /\ e.u /= e.v

(***************************************************************************)
(* C4: when block_links runs, every link outside the tree whose two        *)
(* switches have a control session and port descriptors gets a port-down   *)
(* request for its src_port at the source and its dst_port at the          *)
(* destination.                                                            *)
(***************************************************************************)
C4_NonTreeBlocked ==
    FirstTree =>
        \A e \in TopoEdges :
            /\ ~SkipLink(e, runs[1].tree_edges)
            /\ Available(runs[1], e.u, e.src_port)
            /\ Available(runs[1], e.v, e.dst_port)
            => /\ <<e.u, e.src_port>> \in Downs(runs[1])
               /\ <<e.v, e.dst_port>> \in Downs(runs[1])

(***************************************************************************)
(* C5: given that no (switch, port) belongs to the links of two pairs,     *)
(* block_links sends no port-down request for a port of a link whose pair  *)
(* is in the tree it was given, in either direction.                       *)
(***************************************************************************)
C5_TreeUntouched ==
    PortsUnshared =>
        \A i \in DOMAIN runs : \A e \in TopoEdges :
            SkipLink(e, runs[i].tree_edges)
            => /\ <<e.u, e.src_port>> \notin Downs(runs[i])
               /\ <<e.v, e.dst_port>> \notin Downs(runs[i])

\* block_links blocked a link and left a tree link found in both directions.
C5_Witness ==
    /\ PortsUnshared /\ runs /= <<>> /\ runs[1].mods /= <<>>
    /\ \E e, f \in TopoEdges :
          /\ e.u = f.v /\ e.v = f.u
          /\ <<e.u, e.v>> \in Range(runs[1].tree_edges)
          /\ <<e.u, e.src_port>> \notin Downs(runs[1])
          /\ <<f.u, f.src_port>> \notin Downs(runs[1])

(***************************************************************************)
(* C6: for a link outside the tree whose destination switch has no control *)
(* session and whose source switch has one, block_links still sends the    *)
(* port-down request for the source port, and raises nothing.              *)
(***************************************************************************)
C6_SourceSideStillBlocked ==
    FirstTree =>
        \A e \in TopoEdges :
            /\ ~SkipLink(e, runs[1].tree_edges)
            /\ Available(runs[1], e.u, e.src_port)
            /\ e.v \notin Range(datapaths)
            => /\ <<e.u, e.src_port>> \in Downs(runs[1])
               /\ runs[1].err = "none"

\* The step handles a frame that is not filtered and whose destination is
\* not in the learning table.
FloodStep ==
    /\ ev'.type = "packet_in"
    /\ ~Filtered(ev'.ethertype)
    /\ ev'.out_port = OFPP_FLOOD

\* The step calls Kruskal() and block_links().
Computes == Len(runs') = Len(runs) + 1

(***************************************************************************)
(* C7 as stated: in a generation the computation and enforcement run at    *)
(* the first packet-in that is not filtered and falls back to flood, and   *)
(* at no other event; an enforced generation stays enforced until the next *)
(* rebuild.                                                                *)
(***************************************************************************)
C7_OncePerGenerationAsStated ==
    [][ /\ Computes <=> (FloodStep /\ runs = <<>>)
        /\ (topo.MST_exist /\ ~topo'.MST_exist => ev'.type = "switch_enter")
      ]_vars

\* C7 amended: the computation and enforcement run exactly at the packets-in
\* that are not filtered and fall back to flood while the generation is not
\* marked enforced; that is the first such packet-in and, when the call
\* raised, each later one until a call returns.  At most one call of a
\* generation returns, it is the last, and an enforced generation stays
\* enforced until the next rebuild.
C7_OncePerGeneration ==
    [][ /\ Computes <=> (FloodStep /\ ~topo.MST_exist)
        /\ (runs = <<>> /\ FloodStep => Computes)
        /\ (topo.MST_exist /\ ~topo'.MST_exist => ev'.type = "switch_enter")
        /\ \A i \in DOMAIN runs' : runs'[i].err = "none" => i = Len(runs')
        /\ (Computes => (topo'.MST_exist <=> runs'[Len(runs')].err = "none"))
      ]_vars

\* An enforced generation, one link of a cycle blocked, has just handled a
\* later flood without computing again.
C7_Witness ==
    /\ topo.MST_exist /\ Len(runs) = 1
    /\ runs[1].tree_edges /= <<>> /\ runs[1].mods /= <<>>
    /\ ev.type = "packet_in" /\ ev.out_port = OFPP_FLOOD
    /\ \A i \in DOMAIN sent : sent[i].type /= "OFPPortMod"

(***************************************************************************)
(* C8: a rebuild leaves the generation not computed, with a fresh          *)
(* disjoint-set, whatever the state before and also when the lists are the *)
(* ones of the previous rebuild; the next flood-fallback packet-in then    *)
(* computes a whole spanning forest and, unless it raises, blocks every    *)
(* link outside it whose switches are available and marks the generation   *)
(* enforced.                                                               *)
(***************************************************************************)
C8_RebuildRearms ==
    [][ /\ (ev'.type = "switch_enter"
              => /\ ~topo'.MST_exist
                 /\ runs' = <<>>
                 /\ topo'.set = UnionFindSet(Len(datapaths')))
        /\ (runs = <<>> /\ topo.set /= NoneSet /\ FloodStep
              => /\ Computes
                 /\ LET r == runs'[1]
                    IN  /\ r.err /= "Kruskal"
                            => Len(r.tree_edges) = Cardinality(Nodes)
                                   - Cardinality(Components(Nodes, TopoEdges))
                        /\ r.err = "none"
                            => /\ topo'.MST_exist
                               /\ \A e \in TopoEdges :
                                     /\ ~SkipLink(e, r.tree_edges)
                                     /\ Available(r, e.u, e.src_port)
                                     /\ Available(r, e.v, e.dst_port)
                                     => /\ <<e.u, e.src_port>> \in Downs(r)
                                        /\ <<e.v, e.dst_port>> \in Downs(r))
      ]_vars

\* An enforced generation was rebuilt from the same lists, and the next
\* flood computed a tree and blocked a link again.
C8_Witness ==
    /\ rearmed /\ topo.MST_exist /\ Len(runs) = 1
    /\ runs[1].tree_edges /= <<>> /\ runs[1].mods /= <<>>

(***************************************************************************)
(* C9: a second Kruskal() on the unchanged topology returns the tree of    *)
(* the first, and block_links on it sends the same port-down requests.     *)
(***************************************************************************)
C9_SecondRunSame ==
    Len(runs) = 2 /\ runs[1].err = "none" /\ runs[2].err = "none"
        => /\ Range(runs[2].tree_edges) = Range(runs[1].tree_edges)
           /\ Range(runs[2].mods) = Range(runs[1].mods)

(***************************************************************************)
(* C10: whenever the topology holds both A -> B and B -> A, the two edges  *)
(* carry the same weight.                                                  *)
(***************************************************************************)
C10_WeightSymmetry ==
    \A e, f \in TopoEdges : e.u = f.v /\ e.v = f.u => e.weight = f.weight

\* Both directions of a pair were added, the pair's links came with
\* different samples, and a link of the pair was reported again.
C10_Witness ==
    \E i, j, k \in DOMAIN net.links :
        /\ i < j /\ j < k
        /\ net.links[j].src = net.links[i].dst /\ net.links[j].dst = net.links[i].src
        /\ net.links[k] = net.links[i]
        /\ net.weights[i] /= net.weights[j] /\ net.weights[k] /= net.weights[i]
        /\ has_edge(topo, net.links[i].src, net.links[i].dst)
        /\ has_edge(topo, net.links[i].dst, net.links[i].src)

\* Ids x and y have one representative in the list fa, by find(x) and then
\* find(y).
SameRoot(fa, x, y) ==
    LET fx == find(fa, x)
        fy == find(fx.fa, y)
    IN  ~fx.err /\ ~fy.err /\ fx.root = fy.root

\* The partition of the slots of fa that SameRoot draws.
Partition(fa) == {{y \in DOMAIN fa : SameRoot(fa, x, y)} : x \in DOMAIN fa}

(***************************************************************************)
(* C11: after calls of find and union on ids of the list, two ids have the *)
(* same representative exactly when a chain of the pairs union was called  *)
(* with connects them; the two ids of the latest union have the same one.  *)
(***************************************************************************)
C11_Connectivity ==
    call.plain =>
        /\ Partition(ufset.fa) = Components(DOMAIN ufset.fa, linked)
        /\ (call.op = "union" => SameRoot(ufset.fa, call.x, call.y))

\* Unions have chained three ids no union was called with directly, and
\* left another id apart.
C11_Witness ==
    /\ call.plain /\ call.op = "union"
    /\ \E x, y \in DOMAIN ufset.fa :
          /\ x /= y
          /\ [u |-> x, v |-> y] \notin linked /\ [u |-> y, v |-> x] \notin linked
          /\ SameRoot(ufset.fa, x, y)
    /\ \E x, y \in DOMAIN ufset.fa : ~SameRoot(ufset.fa, x, y)

(***************************************************************************)
(* C12: a find that returns r leaves a list in which find(r) is r and the  *)
(* same find returns r again, and the ids share representatives after the  *)
(* call exactly as before it.                                              *)
(***************************************************************************)
C12_FindIdempotent ==
    call.op = "find" /\ ~call.err =>
        /\ find(ufset.fa, call.root) = [fa |-> ufset.fa, root |-> call.root, err |-> FALSE]
        /\ find(ufset.fa, call.x) = [fa |-> ufset.fa, root |-> call.root, err |-> FALSE]
        /\ Partition(ufset.fa) = Partition(call.before)

\* A find compressed a path: it changed the list.
C12_Witness ==
    /\ call.op = "find" /\ ~call.err
    /\ ufset.fa /= call.before
    /\ call.root /= call.x

(***************************************************************************)
(* C13: a find or union called with an id outside 1..n raises and changes  *)
(* no parent pointer.                                                      *)
(***************************************************************************)
C13_OutOfRangeFails ==
    /\ call.op = "find" /\ call.x \notin 1..ufset.size
            => call.err /\ ufset.fa = call.before
    /\ call.op = "union" /\ ({call.x, call.y} \subseteq 1..ufset.size) = FALSE
            => call.err /\ ufset.fa = call.before

(***************************************************************************)
(* C14: a rebuild leaves a topology made of its two lists alone: the edges *)
(* are the (source, destination) pairs of the link list, each with the     *)
(* ports of the last link of its pair and a weight sampled in this         *)
(* rebuild, the nodes are the listed switches and the links' ends, every   *)
(* slot 0..|S| of the disjoint-set is its own root, and nothing is         *)
(* computed yet.                                                           *)
(***************************************************************************)
C14_RebuildWholesale ==
    ev.type = "switch_enter" =>
        LET L == net.links
            last(e) == CHOOSE i \in DOMAIN L :
                          /\ L[i].src = e.u /\ L[i].dst = e.v
                          /\ \A j \in DOMAIN L :
                                L[j].src = e.u /\ L[j].dst = e.v => j <= i
        IN  /\ {<<e.u, e.v>> : e \in TopoEdges} = {<<L[i].src, L[i].dst>> : i \in DOMAIN L}
            /\ \A e \in TopoEdges :
                  /\ e.src_port = L[last(e)].src_port
                  /\ e.dst_port = L[last(e)].dst_port
                  /\ e.weight \in Range(net.weights)
            /\ Cardinality(TopoEdges) = Cardinality({<<L[i].src, L[i].dst>> : i \in DOMAIN L})
            /\ Nodes = Range(net.switches) \cup {L[i].src : i \in DOMAIN L}
                                           \cup {L[i].dst : i \in DOMAIN L}
            /\ Len(topo.nodes) = Cardinality(Nodes)
            /\ topo.set.size = Len(net.switches)
            /\ DOMAIN topo.set.fa = 0..Len(net.switches)
            /\ \A i \in DOMAIN topo.set.fa : topo.set.fa[i] = i
            /\ ~topo.MST_exist
            /\ runs = <<>>

\* An enforced triangle over three switches was replaced by one repeated
\* pair over fewer switches: the third link's ports are the edge's.
C14_Witness ==
    /\ ev.type = "switch_enter"
    /\ net.links = Twice
    /\ net.switches = <<1, 2>>
    /\ edge_data(topo, 1, 2).src_port = 1
    /\ mac_to_port /= <<>>

(***************************************************************************)
(* C15: a packet-in whose ethertype is LLDP or IPv6 changes neither the    *)
(* learning table nor the topology, its disjoint-set and MST_exist, and    *)
(* sends nothing, whatever the state.                                      *)
(***************************************************************************)
C15_FilteredNoEffect ==
    [][ ev'.type = "packet_in" /\ ev'.ethertype \in {ETH_TYPE_LLDP, ETH_TYPE_IPV6}
          => /\ mac_to_port' = mac_to_port
             /\ topo' = topo
             /\ datapaths' = datapaths
             /\ runs' = runs
             /\ sent' = <<>>
      ]_vars

\* An IPv6 frame from an address the table lacks, on an unused port, came
\* after the generation was enforced.
C15_Witness ==
    /\ ev.type = "packet_in" /\ ev.ethertype = ETH_TYPE_IPV6
    /\ topo.MST_exist /\ runs /= <<>> /\ runs[1].mods /= <<>>
    /\ ev.frame.dpid \in DOMAIN mac_to_port
    /\ mac_to_port[ev.frame.dpid][ev.frame.src] /= ev.frame.in_port
    /\ sent = <<>>

(***************************************************************************)
(* C16: the keys of the learning table never go away; a rebuild leaves the *)
(* table as it was; a packet-in that is not filtered sets the entry of its *)
(* switch and source address to its ingress port and no other, whether the *)
(* generation is enforced or not and whether the handler raises or not.    *)
(***************************************************************************)
C16_MacTableSurvives ==
    [][ /\ \A d \in DOMAIN mac_to_port :
              /\ d \in DOMAIN mac_to_port'
              /\ DOMAIN mac_to_port[d] \subseteq DOMAIN mac_to_port'[d]
        /\ (ev'.type = "switch_enter" => mac_to_port' = mac_to_port)
        /\ (ev'.type = "packet_in" /\ ev'.ethertype \notin {ETH_TYPE_LLDP, ETH_TYPE_IPV6}
              => /\ ev'.frame.dpid \in DOMAIN mac_to_port'
                 /\ ev'.frame.src \in DOMAIN mac_to_port'[ev'.frame.dpid]
                 /\ mac_to_port'[ev'.frame.dpid][ev'.frame.src] = ev'.frame.in_port
                 /\ \A d \in DOMAIN mac_to_port : \A m \in DOMAIN mac_to_port[d] :
                       <<d, m>> /= <<ev'.frame.dpid, ev'.frame.src>>
                       => mac_to_port'[d][m] = mac_to_port[d][m])
      ]_vars

\* The table outlived the rebuild of an enforced generation, and in the new
\* generation, enforced again, a frame has moved an address to another port.
C16_Witness ==
    /\ rearmed /\ topo.MST_exist
    /\ ev.type = "packet_in" /\ ev.ethertype = ETH_TYPE_IP
    /\ ev.out_port /= OFPP_FLOOD
    /\ mac_to_port[ev.frame.dpid][ev.frame.src] = ev.frame.in_port
    /\ ev.frame.in_port = MaxPort

(***************************************************************************)
(* C18: when the handler has sent a flow or a packet-out that floods, the  *)
(* generation is marked enforced, the latest Kruskal() and block_links()   *)
(* have returned, and every port-down request of the event went out before *)
(* the flood.                                                              *)
(***************************************************************************)
C18_FloodAfterEnforcement ==
    \A i \in DOMAIN sent :
        sent[i].type \in {"OFPFlowMod", "OFPPacketOut"} /\ sent[i].out_port = OFPP_FLOOD
        => /\ topo.MST_exist
           /\ runs /= <<>> /\ runs[Len(runs)].err = "none"
           /\ \A j \in DOMAIN sent : sent[j].type = "OFPPortMod" => j < i

\* One event blocked a link and then flooded.
C18_Witness ==
    /\ topo.MST_exist
    /\ \E i, j \in DOMAIN sent :
          /\ sent[i].type = "OFPPortMod"
          /\ sent[j].type = "OFPPacketOut" /\ sent[j].out_port = OFPP_FLOOD

(***************************************************************************)
(* C20: a packet-in whose Kruskal() raises IndexError sends no port-down   *)
(* request, no flow and no packet-out and leaves MST_exist False; as long  *)
(* as the latest Kruskal() of the generation raised, the generation is not *)
(* marked and the next flood-fallback packet-in calls Kruskal() again.     *)
(***************************************************************************)
C20_AbortLeavesAwaiting ==
    [][ /\ (Computes /\ runs'[Len(runs')].err = "Kruskal"
              => /\ ev'.type = "packet_in" /\ ev'.raised
                 /\ sent' = <<>>
                 /\ runs'[Len(runs')].mods = <<>>
                 /\ ~topo'.MST_exist)
        /\ (runs /= <<>> /\ runs[Len(runs)].err = "Kruskal"
              => /\ ~topo.MST_exist
                 /\ (FloodStep => Computes))
      ]_vars

\* Kruskal() raised at a flood and was called again at the next one.
C20_Witness ==
    /\ Len(runs) = 2
    /\ runs[1].err = "Kruskal"
    /\ ev.type = "packet_in" /\ ev.out_port = OFPP_FLOOD
    /\ ~topo.MST_exist
    /\ sent = <<>>
    /\ \E e \in TopoEdges : e.u > Len(datapaths) \/ e.v > Len(datapaths)

(***************************************************************************)
(* C17: a port a port-down request was sent for holds, once the request is *)
(* applied, port-down, no-receive, no-forward and no-packet-in all set,    *)
(* whatever its config was.                                                *)
(***************************************************************************)
C17_PortDownSetsAll ==
    \A dp \in blocked :
        \A b \in {OFPPC_PORT_DOWN, OFPPC_NO_RECV, OFPPC_NO_FWD, OFPPC_NO_PACKET_IN} :
            Bit(port_config[dp], b) = 1

(***************************************************************************)
(* C19: no handler sends a request that brings a port up: the set of       *)
(* ports a port-down was sent for only grows and each of them stays down,  *)
(* also when a later generation takes its link into the tree.              *)
(***************************************************************************)
C19_NeverReenabled ==
    [][ /\ blocked \subseteq blocked'
        /\ \A i \in DOMAIN sent' :
              sent'[i].type = "OFPPortMod"
              => /\ Bit(sent'[i].mask, OFPPC_PORT_DOWN) = 1
                 /\ Bit(sent'[i].config, OFPPC_PORT_DOWN) = 1
        /\ \A dp \in blocked' : Bit(port_config'[dp], OFPPC_PORT_DOWN) = 1
      ]_vars

\* The enforced generation's tree holds a link whose two ports an earlier
\* generation blocked and which are still down, though they were up at
\* the start.
C19_Witness ==
    /\ topo.MST_exist /\ runs /= <<>> /\ runs[1].err = "none"
    /\ \E e \in TopoEdges :
          /\ SkipLink(e, runs[1].tree_edges)
          /\ {<<e.u, e.src_port>>, <<e.v, e.dst_port>>} \subseteq blocked
          /\ Bit(port_config[<<e.u, e.src_port>>], OFPPC_PORT_DOWN) = 1
          /\ Bit(port_config[<<e.v, e.dst_port>>], OFPPC_PORT_DOWN) = 1
    /\ \E dp \in RingPorts \ blocked : Bit(port_config[dp], OFPPC_PORT_DOWN) = 0

====
